---- MODULE Spec2Model ----
(***************************************************************************)
(* Model of the blog API of server.js / models.js: the user store and the  *)
(* post store (two MongoDB collections), the Basic authentication gate     *)
(* (the verify function given to BasicStrategy), the registration handler  *)
(* POST /users and the post handlers.  Every request occupies a slot of    *)
(* reqs while the server works on it; one action is one synchronous run    *)
(* of a handler or of one callback of its promise chain, so requests       *)
(* interleave exactly where the code awaits the store or the hasher.       *)
(*                                                                         *)
(* JavaScript values of the request body of POST /users are records        *)
(* [t, s]: t is the typeof tag and s the characters of a string.  A body   *)
(* is a function from the field names it carries to their values, so       *)
(* `field in req.body` is membership in its DOMAIN.                        *)
(***************************************************************************)
EXTENDS Naturals, Sequences, FiniteSets, TLC

\* ------------------------------------------------------------------ bounds

\* requests the server works on at the same time
MaxInFlight == 2
\* post identifiers that exist or can be asked for (the first is seeded)
MaxPostId == 2

\* ------------------------------------------------------------ JS values

Str(s) == [t |-> "string", s |-> s]
Num(s) == [t |-> "number", s |-> s]
\* the value of a missing property, and of a variable never assigned
Undefined == [t |-> "undefined", s |-> <<>>]
\* the express response object `res` (what res.status(..).json(..) returns)
ResObject == [t |-> "object", f |-> <<>>]
\* an object with the fields of f, such as a parsed JSON body
Obj(f) == [t |-> "object", f |-> f]

TypeOf(v) == v.t

\* JavaScript's !v for the values above
Falsy(v) ==
  \/ v.t = "undefined"
  \/ v.t = "string" /\ v.s = <<>>
  \/ v.t = "number" /\ v.s = <<"0">>

\* req.body[field], undefined when the body does not carry the field
Get(body, field) == IF field \in DOMAIN body.f THEN body.f[field] ELSE Undefined

\* `field in body`
In(field, body) == field \in DOMAIN body.f

RECURSIVE TrimLeft(_)
TrimLeft(s) == IF s # <<>> /\ Head(s) = " " THEN TrimLeft(Tail(s)) ELSE s

RECURSIVE TrimRight(_)
TrimRight(s) ==
  IF s # <<>> /\ s[Len(s)] = " " THEN TrimRight(SubSeq(s, 1, Len(s) - 1)) ELSE s

\* String.prototype.trim on the characters of a string
Trim(s) == TrimRight(TrimLeft(s))

\* ------------------------------------------------------- password hasher

\* the salts bcrypt may draw for one call of hash
Salts == {"s1", "s2"}

BcryptPrefix == <<"$2a$10$">>

\* the mutant of hashPassword: the plaintext comes back unhashed
HashPasswordPlain(password, salt) == password

\* User.hashPassword: bcrypt.hash(password, 10); the output embeds cost and salt
HashPassword(password, salt) == Str(BcryptPrefix \o <<salt>> \o password.s)

\* bcrypt.compare(password, this.password): rehash with the embedded salt
ValidatePassword(password, hash) ==
  /\ Len(hash.s) >= 2
  /\ SubSeq(hash.s, 1, 1) = BcryptPrefix
  /\ hash = Str(BcryptPrefix \o <<hash.s[2]>> \o password.s)

\* the instance methods a User document has: those put on userSchema.methods.
\* validatePassword is assigned to a property of the function userSchema.method
\* (singular), which registers nothing, so documents do not have it.
UserMethods == {"apiRepr"}

\* the static methods of the User model (userSchema.statics)
UserStatics == {"hashPassword"}


\* ------------------------------------------------------------------ inputs

\* values a client sends as userName: "a", " a", " ", and a number
UserNameValues == {Str(<<"a">>), Str(<<" ", "a">>), Str(<<" ">>), Num(<<"7">>)}

\* values a client sends as password: " p", " ", and a number
PasswordValues == {Str(<<" ", "p">>), Str(<<" ">>), Num(<<"7">>)}

UserFieldValues(field) ==
  IF field = "userName" THEN UserNameValues ELSE PasswordValues

\* req.body of POST /users after bodyParser.json(): always an object, {} when
\* the request carries no body, with any of the two fields the handler reads
UserBodies ==
  UNION { {Obj(b) : b \in {c \in [S -> UserNameValues \cup PasswordValues] :
                             \A k \in S : c[k] \in UserFieldValues(k)}} :
          S \in SUBSET {"userName", "password"} }

\* the Authorization header: absent, or Basic credentials
NoAuth == [given |-> FALSE, username |-> <<>>, password |-> <<>>]

\* the credentials of the seeded user
Credentials1 == [given |-> TRUE, username |-> <<"a">>, password |-> <<"p">>]

Credentials ==
  {NoAuth} \cup
  {Credentials1,
   [given |-> TRUE, username |-> <<"a">>, password |-> <<"q">>],
   [given |-> TRUE, username |-> <<"z">>, password |-> <<"p">>]}

AllPostIds == <<"p1", "p2", "p3", "p4">>

\* :id values of a request: identifiers of posts that exist, existed or never did
PostIds == {AllPostIds[i] : i \in 1 .. MaxPostId}

PostFieldValues(field) ==
  CASE field = "id" -> PostIds
    [] field = "title" -> {"t2"}
    [] field = "content" -> {"c2"}
    [] field = "author" -> {"a2"}
    [] OTHER -> {"d2"}

\* req.body of PUT /posts/:id
PostBodies ==
  UNION { {Obj(b) : b \in {c \in [S -> PostIds \cup {"t2", "c2", "a2", "d2"}] :
                             \A k \in S : c[k] \in PostFieldValues(k)}} :
          S \in SUBSET {"id", "title", "content", "author", "created"} }

\* req.body of POST /posts
NewPostBodies == {b \in PostBodies : DOMAIN b.f \subseteq {"title", "content", "author"}}

\* the bodies sent to a gated route while the gate is what is looked at: the
\* gate reads the Authorization header only
GateBodies == {b \in PostBodies : DOMAIN b.f = {"id", "title"}}

\* the routes behind passport.authenticate('basic', {session: false})
GatedRoutes ==
  {"GET /posts", "GET /posts/:id", "POST /posts", "PUT /posts/:id",
   "DELETE /posts/:id"}

HasId(route) == route \in {"GET /posts/:id", "PUT /posts/:id", "DELETE /posts/:id"}
HasBody(route) == route \in {"POST /posts", "PUT /posts/:id"}

\* ------------------------------------------------------------------- state

VARIABLES
  users,   \* the User collection: documents in insertion order
  plain,   \* history: plain[i] is the password submitted for users[i]
  posts,   \* the BlogPost collection: a set of documents
  nextId,  \* index in AllPostIds of the next identifier the store generates
  reqs     \* the requests in flight, by slot

vars == <<users, plain, posts, nextId, reqs>>

Slots == 1 .. MaxInFlight

\* a request as it reaches the server, with the locals of its handler
NewReq(route, auth, id, body) ==
  [route |-> route, auth |-> auth, id |-> id, body |-> body,
   pc |-> "idle",
   status |-> 0, msg |-> "", sends |-> 0,  \* the response: first send wins
   calls |-> 0,                            \* invocations of the verify callback
   user |-> 0,                             \* `user` of the verify function
   valid |-> "undefined",                  \* `valid` of its second then
   reqUser |-> 0,                          \* req.user
   userName |-> <<>>, password |-> <<>>,   \* the trimmed locals of POST /users
   hash |-> Undefined,                     \* `hash` of its second then
   updated |-> <<>>,                       \* `updated` of PUT /posts/:id
   seen |-> <<>>]      \* history: the User collection when the request came

Idle == NewReq("", NoAuth, "", Obj(<<>>))

Free(s) == reqs[s].pc \in {"idle", "done"}

HasFree == {s \in Slots : Free(s)} # {}

\* a request arrives in the first slot that is free
FreeSlot == CHOOSE s \in Slots : Free(s) /\ \A x \in 1 .. s - 1 : ~Free(x)

\* reqs with slot s now holding r.  An answered request stays in its slot, as
\* the record of its response, until it is overwritten or another is answered.
Put(s, r) ==
  [x \in Slots |->
     IF x = s THEN r
     ELSE IF r.pc = "done" /\ reqs[x].pc = "done" THEN Idle
     ELSE reqs[x]]

\* the user and the post the tests seed
SeedUser ==
  [userName |-> Str(<<"a">>), password |-> Str(<<"$2a$10$", "s1", "p">>)]

SeedPost ==
  [_id |-> AllPostIds[1], title |-> "t1", content |-> "c1", author |-> "a1",
   created |-> "d1"]

Init ==
  /\ users \in {<<>>, <<SeedUser>>}
  /\ plain = [i \in 1 .. Len(users) |-> Str(<<"p">>)]
  /\ posts = {SeedPost}
  /\ nextId = 2
  /\ reqs = [s \in Slots |-> Idle]

\* ---------------------------------------------------------------- response

\* res.status(status).json({message: msg}): the first send is the response; a
\* later one changes nothing the client sees (it throws, headers being sent)
Send(r, status, msg) ==
  [r EXCEPT !.status = IF r.sends = 0 THEN status ELSE @,
            !.msg = IF r.sends = 0 THEN msg ELSE @,
            !.sends = @ + 1]

Done(r) == [r EXCEPT !.pc = "done"]

\* ------------------------------------------------------------- user store

\* User.find({userName}).count()
CountUsers(us, userName) ==
  Cardinality({i \in 1 .. Len(us) : us[i].userName = userName})

\* User.findOne({userName: username}): an index of users, 0 for null
FindOne(us, username) ==
  IF \E i \in 1 .. Len(us) : us[i].userName = username
    THEN CHOOSE i \in 1 .. Len(us) :
           /\ us[i].userName = username
           /\ \A j \in 1 .. Len(us) : us[j].userName = username => i <= j
    ELSE 0

\* the schema's validation of a new user: userName and password are required
\* Strings; a value that is no string and has only Object's toString is a CastError
UserValid(doc) ==
  /\ doc.userName.t = "string" /\ doc.userName.s # <<>>
  /\ doc.password.t = "string" /\ doc.password.s # <<>>

\* the mutant of UserUnique: no unique index on userName
UserUniqueNone(us, userName) == TRUE

\* userName: {unique: true}: the unique index refuses a second document
UserUnique(us, userName) == CountUsers(us, userName) = 0

\* ------------------------------------------------------------ POST /users

\* the checks of the handler before it touches the store: the response of the
\* first that fails, status 0 when all pass
ValidateUser(body) ==
  LET userName == Get(body, "userName")
      password == Get(body, "password")
  IN
  IF Falsy(body) THEN [status |-> 400, msg |-> "Empty request body"]
  ELSE IF ~In("userName", body)
    THEN [status |-> 422, msg |-> "Missing username"]
  ELSE IF TypeOf(userName) # "string"
    THEN [status |-> 422, msg |-> "Username must be a string"]
  ELSE IF Len(Trim(userName.s)) = 0
    THEN [status |-> 422, msg |-> "Username is nonexistent"]
  ELSE IF Falsy(password)
    THEN [status |-> 422, msg |-> "Missing password"]
  ELSE IF TypeOf(password) # "string"
    THEN [status |-> 422, msg |-> "password must be a string"]
  ELSE IF Len(Trim(password.s)) = 0
    THEN [status |-> 422, msg |-> "password is nonexistent"]
  ELSE [status |-> 0, msg |-> ""]


\* the mutant of UsernameTaken: an off-by-one in the test of the count
UsernameTakenOffByOne(count) == count > 1

\* `count > 0` of the first then
UsernameTaken(count) == count > 0

\* app.post('/users', ...): the synchronous part of the handler, which answers
\* a request that fails a check and otherwise starts User.find({userName}).count()
PostUsers(body) ==
  LET r == [NewReq("POST /users", NoAuth, "", body) EXCEPT !.seen = users]
      v == ValidateUser(body)
  IN
  /\ HasFree
  /\ reqs' = Put(FreeSlot,
       IF v.status # 0
         THEN Done(Send(r, v.status, v.msg))
         ELSE [r EXCEPT !.pc = "count",
                        !.userName = Trim(Get(body, "userName").s),
                        !.password = Trim(Get(body, "password").s)])
  /\ UNCHANGED <<users, plain, posts, nextId>>

\* the first then: the count is read; a taken name is answered 400 and the then
\* returns res, which the next then receives as `hash`; otherwise the password
\* is hashed
UsersCount(s) ==
  LET r == reqs[s]
      count == CountUsers(users, Str(r.userName))
  IN
  /\ r.pc = "count"
  /\ IF UsernameTaken(count)
       THEN reqs' = Put(s,
              [Send(r, 400, "This username already exists")
                 EXCEPT !.pc = "create", !.hash = ResObject])
       ELSE \E salt \in Salts :
              reqs' = Put(s,
                [r EXCEPT !.pc = "create",
                          !.hash = HashPassword(Str(r.password), salt)])
  /\ UNCHANGED <<users, plain, posts, nextId>>

\* the second then: User.create({userName, password: hash, ...}); the store
\* validates the document and its unique index, and rejects or inserts
UsersCreate(s) ==
  LET r == reqs[s]
      doc == [userName |-> Str(r.userName), password |-> r.hash]
  IN
  /\ r.pc = "create"
  /\ IF UserValid(doc) /\ UserUnique(users, doc.userName)
       THEN /\ users' = Append(users, doc)
            /\ plain' = Append(plain, Get(r.body, "password"))
            /\ reqs' = Put(s, [r EXCEPT !.pc = "created"])
       ELSE /\ reqs' = Put(s, [r EXCEPT !.pc = "catch"])
            /\ UNCHANGED <<users, plain>>
  /\ UNCHANGED <<posts, nextId>>

\* the third then: res.status(201).json(newUser.apiRepr())
UsersCreated(s) ==
  LET r == reqs[s]
  IN
  /\ r.pc = "created"
  /\ reqs' = Put(s,
       IF r.sends = 0
         THEN Done(Send(r, 201, ""))
         ELSE [Send(r, 201, "") EXCEPT !.pc = "catch"])
  /\ UNCHANGED <<users, plain, posts, nextId>>

\* the catch: res.status(500).json({message: 'This is a catch error'})
UsersCatch(s) ==
  LET r == reqs[s]
  IN
  /\ r.pc = "catch"
  /\ reqs' = Put(s, Done(Send(r, 500, "This is a catch error")))
  /\ UNCHANGED <<users, plain, posts, nextId>>

\* ------------------------------------------------- the authentication gate

\* the first then of the verify function: no user calls back with false (the
\* strategy answers 401) and returns undefined to the next then; a user is
\* asked to validate the password, which throws a TypeError when the document
\* has no such method
VerifyFirstThen(r, us) ==
  LET user == FindOne(us, Str(r.auth.username))
  IN
  IF user = 0
    THEN [Send(r, 401, "Unauthorized")
            EXCEPT !.calls = @ + 1, !.pc = "valid", !.valid = "undefined"]
  ELSE IF "validatePassword" \in UserMethods
    THEN [r EXCEPT !.user = user, !.pc = "valid",
            !.valid = IF ValidatePassword(Str(r.auth.password), us[user].password)
                        THEN "true" ELSE "false"]
    ELSE [r EXCEPT !.user = user, !.pc = "verifyCatch"]

\* the second then: !valid calls back with false (the strategy answers 401, and
\* throws when the response has ended already, which the catch receives); valid
\* calls back with the user, and the strategy sets req.user and calls next()
VerifySecondThen(r) ==
  IF r.valid # "true"
    THEN IF r.sends = 0
           THEN Done([Send(r, 401, "Unauthorized") EXCEPT !.calls = @ + 1])
           ELSE [r EXCEPT !.calls = @ + 1, !.sends = @ + 1, !.pc = "verifyCatch"]
    ELSE [r EXCEPT !.calls = @ + 1, !.reqUser = r.user, !.pc = "next"]

\* the catch: callback(err); the strategy passes the error on and express
\* answers 500 unless the response has been sent
VerifyCatch(r) ==
  Done([(IF r.sends = 0 THEN Send(r, 500, "Internal Server Error") ELSE r)
          EXCEPT !.calls = @ + 1])

\* the verify function given to BasicStrategy: findOne, then the chain
\* .then(..).then(..).catch(..).  It reads the store once and touches nothing
\* but the request, so the chain runs here in one step.
Verify(r, us) ==
  LET r1 == VerifyFirstThen(r, us)
      r2 == IF r1.pc = "valid" THEN VerifySecondThen(r1) ELSE r1
  IN IF r2.pc = "verifyCatch" THEN VerifyCatch(r2) ELSE r2

\* passport.authenticate('basic', {session: false}) before a gated handler: a
\* request without credentials is answered 401 by the strategy, any other goes
\* through the verify function.  The result is at pc "next" when the gate has
\* called next(), and "done" with the gate's response otherwise.
Gate(r, us) ==
  IF ~r.auth.given
    THEN Done(Send([r EXCEPT !.seen = us], 401, "Unauthorized"))
    ELSE Verify([r EXCEPT !.seen = us], us)

\* a request to a gated route that the gate answers itself
Authenticate(route, auth, id, body) ==
  LET r == Gate(NewReq(route, auth, id, body), users)
  IN
  /\ HasFree
  /\ r.pc = "done"
  /\ reqs' = Put(FreeSlot, r)
  /\ UNCHANGED <<users, plain, posts, nextId>>

\* -------------------------------------------------------------- post store

HasPost(ps, id) == \E p \in ps : p._id = id

\* BlogPost.findById(id), for an id that HasPost
PostOf(ps, id) == CHOOSE p \in ps : p._id = id

\* the mutant of ApplySet: a field the update does not carry is overwritten too
ApplySetAll(post, updated) ==
  [post EXCEPT !.title = IF "title" \in DOMAIN updated THEN updated.title ELSE "",
               !.content = IF "content" \in DOMAIN updated THEN updated.content ELSE "",
               !.author = IF "author" \in DOMAIN updated THEN updated.author ELSE ""]

\* {$set: updated} on one document: the paths of `updated` take its values
ApplySet(post, updated) ==
  [post EXCEPT !.title = IF "title" \in DOMAIN updated THEN updated.title ELSE @,
               !.content = IF "content" \in DOMAIN updated THEN updated.content ELSE @,
               !.author = IF "author" \in DOMAIN updated THEN updated.author ELSE @,
               !.created = IF "created" \in DOMAIN updated THEN updated.created ELSE @]

\* BlogPost.findByIdAndUpdate(id, {$set: updated}, {new: true}): the collection after
FindByIdAndUpdate(ps, id, updated) ==
  {IF p._id = id THEN ApplySet(p, updated) ELSE p : p \in ps}

\* BlogPost.findByIdAndRemove(id): the collection after
FindByIdAndRemove(ps, id) == {p \in ps : p._id # id}

\* ------------------------------------------------------------ post handlers
\* Each handler reaches the store once, so it runs in one step, from a request
\* at pc "next", and yields the request with its response, and the collection.

\* app.get('/posts', ...)
GetPostsHandler(r, ps) == Done(Send(r, 200, ""))

\* app.get('/posts/:id', ...): post.apiRepr() on the null of a missing post
\* throws a TypeError, which the catch answers
GetPostsIdHandler(r, ps) ==
  IF HasPost(ps, r.id)
    THEN Done(Send(r, 200, ""))
    ELSE Done(Send(r, 500, "something went horribly awry"))

\* app.post('/posts', ...): n is the index of the id the store gives the post
PostPostsHandler(r, ps, n) ==
  IF ~In("title", r.body)
    THEN [req |-> Done(Send(r, 400, "Missing title in request body")),
          posts |-> ps, nextId |-> n]
  ELSE IF ~In("content", r.body)
    THEN [req |-> Done(Send(r, 400, "Missing content in request body")),
          posts |-> ps, nextId |-> n]
  ELSE [req |-> Done(Send(r, 201, "")),
        posts |-> ps \cup {[_id |-> AllPostIds[n],
                            title |-> r.body.f.title,
                            content |-> r.body.f.content,
                            author |-> IF In("author", r.body)
                                         THEN r.body.f.author ELSE "",
                            created |-> "d1"]},
        nextId |-> n + 1]

\* req.params.id && req.body.id && req.params.id === req.body.id
IdsMatch(r) ==
  /\ r.id # ""
  /\ In("id", r.body) /\ r.body.f.id # ""
  /\ r.id = r.body.f.id

UpdateableFields == {"title", "content", "author"}

\* `updated` of app.put: the updateable fields that the body carries
Updated(body) ==
  [field \in UpdateableFields \cap DOMAIN body.f |-> body.f[field]]

\* app.put('/posts/:id', ...): ids that do not match are answered 400, and the
\* handler goes on (the if does not return); findByIdAndUpdate; then 201 with
\* the updated post, which throws on the null of a missing post or when the
\* response has been sent; the catch then tries 500
PutPostsIdHandler(r, ps) ==
  LET r1 == IF ~IdsMatch(r)
              THEN Send(r, 400, "Request path id and request body id values must match")
              ELSE r
      r2 == [r1 EXCEPT !.updated = Updated(r.body)]
      found == HasPost(ps, r.id)
      r3 == IF found THEN Send(r2, 201, "") ELSE r2
      thrown == ~found \/ r2.sends > 0
      r4 == IF thrown THEN Send(r3, 500, "Something went wrong") ELSE r3
  IN [req |-> Done(r4), posts |-> FindByIdAndUpdate(ps, r.id, r2.updated)]

\* app.delete('/posts/:id', ...)
DeletePostsIdHandler(r, ps) ==
  [req |-> Done(Send(r, 204, "")), posts |-> FindByIdAndRemove(ps, r.id)]

\* a request to a gated route as the gate hands it to the handler: the second
\* then has called back with the user, req.user is set and next() called
Passed(route, id, body) ==
  VerifySecondThen([NewReq(route, Credentials1, id, body)
                      EXCEPT !.pc = "valid", !.user = 1, !.valid = "true",
                             !.seen = users])

GetPosts ==
  /\ HasFree
  /\ reqs' = Put(FreeSlot, GetPostsHandler(Passed("GET /posts", "", Obj(<<>>)), posts))
  /\ UNCHANGED <<users, plain, posts, nextId>>

GetPostsId(id) ==
  /\ HasFree
  /\ reqs' = Put(FreeSlot, GetPostsIdHandler(Passed("GET /posts/:id", id, Obj(<<>>)), posts))
  /\ UNCHANGED <<users, plain, posts, nextId>>

PostPosts(body) ==
  LET out == PostPostsHandler(Passed("POST /posts", "", body), posts, nextId)
  IN
  /\ HasFree
  /\ out.nextId <= MaxPostId + 1
  /\ reqs' = Put(FreeSlot, out.req)
  /\ posts' = out.posts
  /\ nextId' = out.nextId
  /\ UNCHANGED <<users, plain>>

PutPostsId(id, body) ==
  LET out == PutPostsIdHandler(Passed("PUT /posts/:id", id, body), posts)
  IN
  /\ HasFree
  /\ reqs' = Put(FreeSlot, out.req)
  /\ posts' = out.posts
  /\ UNCHANGED <<users, plain, nextId>>

DeletePostsId(id) ==
  LET out == DeletePostsIdHandler(Passed("DELETE /posts/:id", id, Obj(<<>>)), posts)
  IN
  /\ HasFree
  /\ reqs' = Put(FreeSlot, out.req)
  /\ posts' = out.posts
  /\ UNCHANGED <<users, plain, nextId>>

\* ------------------------------------------------------------- the server

NextUsers ==
  \/ \E body \in UserBodies : PostUsers(body)
  \/ \E s \in Slots :
       \/ UsersCount(s)
       \/ UsersCreate(s)
       \/ UsersCreated(s)
       \/ UsersCatch(s)

NextGate ==
  \E route \in GatedRoutes, auth \in Credentials :
    \E id \in (IF HasId(route) THEN PostIds ELSE {""}),
       body \in (IF HasBody(route) THEN GateBodies ELSE {Obj(<<>>)}) :
      Authenticate(route, auth, id, body)

Next == NextUsers \/ NextGate

Spec == Init /\ [][Next]_vars

\* The route handlers as run for a request the gate has handed on.
NextRoutes ==
  \/ GetPosts
  \/ \E id \in PostIds : GetPostsId(id)
  \/ \E body \in NewPostBodies : PostPosts(body)
  \/ \E id \in PostIds, body \in PostBodies : PutPostsId(id, body)
  \/ \E id \in PostIds : DeletePostsId(id)

InitRoutes == Init /\ users = <<SeedUser>>

SpecRoutes == InitRoutes /\ [][NextRoutes]_vars

\* the registration endpoint alone
SpecUsers == Init /\ [][NextUsers]_vars

\* ================================================================== claims

\* the credentials of r name a user of the collection as the request saw it
KnownUser(r) == r.auth.given /\ FindOne(r.seen, Str(r.auth.username)) # 0

\* ... and the password verifies against that user's stored hash
Authentic(r) ==
  /\ KnownUser(r)
  /\ ValidatePassword(Str(r.auth.password),
                      r.seen[FindOne(r.seen, Str(r.auth.username))].password)

Answered(r) == r.pc = "done"

\* C1: on every gated endpoint and in every state of the stores, a request
\* with no Authorization header, with a username no stored user has, or with
\* the username of a stored user and a password that does not verify against
\* that user's hash, is answered 401.
C1_Rejected401 ==
  \A s \in Slots :
    LET r == reqs[s] IN
    (Answered(r) /\ r.route \in GatedRoutes /\ ~Authentic(r)) => r.status = 401

\* The part of C1 that the code keeps: no header, or an unknown username.
C1_NoHeaderOrUnknownUser401 ==
  \A s \in Slots :
    LET r == reqs[s] IN
    (Answered(r) /\ r.route \in GatedRoutes /\ ~KnownUser(r)) => r.status = 401

\* C2: a request to a gated endpoint whose credentials name a stored user and
\* whose password verifies is let through: the user is attached to the request
\* and the response is the handler's, never a 401 or a 500 of the gate.
C2_AuthenticPasses ==
  \A s \in Slots :
    LET r == reqs[s] IN
    (Answered(r) /\ r.route \in GatedRoutes /\ Authentic(r))
      => (r.reqUser # 0 /\ r.status \notin {401, 500})

\* the request that the step from the unprimed to the primed state answered
AnsweredNow(s) == reqs'[s].pc = "done" /\ reqs'[s] # reqs[s]

\* C3: a PUT /posts/:id that got past the gate and whose body id is absent or
\* differs from the path id is answered 400, and the post store is unchanged
\* by it.
C3_MismatchChangesNothing ==
  [][\A s \in Slots :
       (AnsweredNow(s) /\ reqs'[s].route = "PUT /posts/:id" /\ ~IdsMatch(reqs'[s]))
         => (reqs'[s].status = 400 /\ posts' = posts)]_vars

\* What the code keeps of C3: the response is the 400.
C3_MismatchAnswered400 ==
  \A s \in Slots :
    LET r == reqs[s] IN
    (Answered(r) /\ r.reqUser # 0 /\ r.route = "PUT /posts/:id" /\ ~IdsMatch(r))
      => r.status = 400

\* the (trimmed) userName that a body passing the checks registers
NameOf(body) == Str(Trim(Get(body, "userName").s))

\* the request registers a name that the collection held when it came
NameTaken(r) ==
  /\ r.route = "POST /users"
  /\ ValidateUser(r.body).status = 0
  /\ CountUsers(r.seen, NameOf(r.body)) > 0

\* C4: POST /users with a valid userName and password, the trimmed userName
\* being that of a user in the store, is answered 400; no user record is
\* created and the records there are unchanged.
C4_TakenNameRefused ==
  \A s \in Slots :
    LET r == reqs[s] IN
    NameTaken(r) =>
      /\ Answered(r) => r.status = 400
      /\ Len(users) >= Len(r.seen)
      /\ SubSeq(users, 1, Len(r.seen)) = r.seen
      /\ CountUsers(users, NameOf(r.body)) = CountUsers(r.seen, NameOf(r.body))

\* C4's case: " a" is sent when "a" is registered, and refused
C4_Witness ==
  \E s \in Slots :
    /\ NameTaken(reqs[s]) /\ Answered(reqs[s]) /\ reqs[s].status = 400
    /\ Get(reqs[s].body, "userName") = Str(<<" ", "a">>)

\* C5: however POST /users requests with one userName interleave, the store
\* never holds two records with that userName.
C5_UniqueUserName ==
  \A i, j \in 1 .. Len(users) :
    users[i].userName = users[j].userName => i = j

\* C5's case: two requests for one name both passed the count, one inserted
\* and the unique index refused the other
C5_Witness ==
  \E s1, s2 \in Slots :
    /\ s1 # s2
    /\ reqs[s1].route = "POST /users" /\ reqs[s2].route = "POST /users"
    /\ reqs[s1].userName = reqs[s2].userName
    /\ reqs[s1].pc \in {"created", "done"} /\ reqs[s1].hash.t = "string"
    /\ reqs[s1].sends <= 1 /\ reqs[s1].status \in {0, 201}
    /\ reqs[s2].pc = "catch" /\ reqs[s2].hash.t = "string"
    /\ reqs[s2].sends = 0
    /\ CountUsers(users, Str(reqs[s1].userName)) = 1

\* the status C6 gives a body: the checks (1) to (7) in order, 0 when all pass
C6_Status(body) ==
  LET userName == Get(body, "userName")
      password == Get(body, "password")
  IN
  IF DOMAIN body.f = {} THEN 400
  ELSE IF ~In("userName", body) THEN 422
  ELSE IF userName.t # "string" THEN 422
  ELSE IF Trim(userName.s) = <<>> THEN 422
  ELSE IF Falsy(password) THEN 422
  ELSE IF password.t # "string" THEN 422
  ELSE IF Trim(password.s) = <<>> THEN 422
  ELSE 0

\* C6: POST /users answers with the status of the first check that fails, in
\* the order (1) body non-empty, else 400; (2) userName present, (3) text,
\* (4) non-empty when trimmed, (5) password present, (6) text, (7) non-empty
\* when trimmed, else 422; and creates no user record then.
C6_FirstFailingCheck ==
  \A s \in Slots :
    LET r == reqs[s] IN
    (r.route = "POST /users" /\ C6_Status(r.body) # 0)
      => (Answered(r) /\ r.status = C6_Status(r.body) /\ users = r.seen)

\* What the code keeps of C6: a body that carries a field is answered 422 by
\* the first of the checks (2) to (7) that fails.
C6_ChecksTwoToSeven ==
  \A s \in Slots :
    LET r == reqs[s] IN
    (r.route = "POST /users" /\ C6_Status(r.body) = 422)
      => (Answered(r) /\ r.status = 422 /\ r.msg = ValidateUser(r.body).msg)

\* C7: every user record has as its password the hasher's output for the
\* password of the request that created it, never that password itself.
C7_PasswordHashed ==
  \A i \in 1 .. Len(users) :
    /\ users[i].password.t = "string"
    /\ users[i].password # plain[i]
    /\ users[i].password # Str(Trim(plain[i].s))
    /\ ValidatePassword(Str(Trim(plain[i].s)), users[i].password)

\* C7's case: a registration has created a record
C7_Witness ==
  \E s \in Slots :
    /\ reqs[s].route = "POST /users" /\ Answered(reqs[s]) /\ reqs[s].status = 201
    /\ Len(users) > Len(reqs[s].seen)
    /\ plain[Len(users)] = Get(reqs[s].body, "password")

\* C8: a GET /posts/:id that got past the gate, with a valid id that no post
\* of the store has, is answered 404.
C8_MissingPost404 ==
  \A s \in Slots :
    LET r == reqs[s] IN
    (Answered(r) /\ r.route = "GET /posts/:id" /\ r.reqUser # 0
       /\ ~HasPost(posts, r.id))
      => r.status = 404

\* the post of ps with the id of p, and p itself when there is none
Same(ps, p) == IF HasPost(ps, p._id) THEN PostOf(ps, p._id) ELSE p

\* C9: a PUT /posts/:id that got past the gate, with matching path and body
\* id, changes only the fields among title, content and author that the body
\* carries: an absent one, _id and created, and every other post stay.
C9_PutFrame ==
  [][\A s \in Slots :
       (AnsweredNow(s) /\ reqs'[s].route = "PUT /posts/:id" /\ IdsMatch(reqs'[s]))
         => /\ {p._id : p \in posts'} = {p._id : p \in posts}
            /\ Cardinality(posts') = Cardinality(posts)
            /\ \A p \in posts :
                 LET q == Same(posts', p) IN
                 /\ p._id # reqs'[s].id => q = p
                 /\ q._id = p._id /\ q.created = p.created
                 /\ ~In("title", reqs'[s].body) => q.title = p.title
                 /\ ~In("content", reqs'[s].body) => q.content = p.content
                 /\ ~In("author", reqs'[s].body) => q.author = p.author]_vars

\* C9's case: a body with only title (and the id) has changed the title of the
\* seeded post and left its content and author
C9_Witness ==
  \E s \in Slots :
    /\ Answered(reqs[s]) /\ reqs[s].route = "PUT /posts/:id" /\ IdsMatch(reqs[s])
    /\ DOMAIN reqs[s].body.f = {"id", "title"}
    /\ reqs[s].status = 201
    /\ HasPost(posts, reqs[s].id)
    /\ PostOf(posts, reqs[s].id).title = "t2"
    /\ PostOf(posts, reqs[s].id).content = "c1"
    /\ PostOf(posts, reqs[s].id).author = "a1"

\* C10: an authenticated DELETE /posts/:id is answered 204 whether or not the
\* post exists, and afterwards the store has no post with that id.
C10_Delete204 ==
  \A s \in Slots :
    LET r == reqs[s] IN
    (Answered(r) /\ r.route = "DELETE /posts/:id" /\ Authentic(r))
      => (r.status = 204 /\ ~HasPost(posts, r.id))

\* What the code keeps of C10: the handler, for a request that got past the
\* gate, answers 204, removes the post with that id and no other, and a second
\* DELETE of the id does the same and leaves the store as it finds it.
C10_DeleteHandler ==
  [][\A s \in Slots :
       (AnsweredNow(s) /\ reqs'[s].route = "DELETE /posts/:id" /\ reqs'[s].reqUser # 0)
         => /\ reqs'[s].status = 204
            /\ posts' = {p \in posts : p._id # reqs'[s].id}
            /\ DeletePostsIdHandler(reqs'[s], posts').posts = posts']_vars

\* C11: along every path of the chains of POST /users and PUT /posts/:id a
\* request is sent at most one response: after a status has been sent no later
\* step of the chain tries to send another.
C11_AtMostOneSend ==
  \A s \in Slots :
    reqs[s].route \in {"POST /users", "PUT /posts/:id"} => reqs[s].sends <= 1

\* What the code keeps of C11: the one path of POST /users with a second send
\* is the one that answered 400 for a userName in use; every other path sends
\* one response.
C11_OnlyTakenNameSendsTwice ==
  \A s \in Slots :
    LET r == reqs[s] IN
    r.route = "POST /users" =>
      /\ r.sends <= 2
      /\ r.sends = 2 => (r.status = 400 /\ r.msg = "This username already exists")
      /\ Answered(r) => r.sends >= 1

\* What the code keeps of C11 for PUT /posts/:id: with matching ids the chain
\* sends one response.
C11_PutMatchOneSend ==
  \A s \in Slots :
    LET r == reqs[s] IN
    (Answered(r) /\ r.route = "PUT /posts/:id" /\ IdsMatch(r)) => r.sends = 1

\* C12: for each authentication attempt the verify function calls its
\* callback exactly once, whether the user is not found, found with a wrong
\* password or found with the right one.
C12_CallbackOnce ==
  \A s \in Slots :
    LET r == reqs[s] IN
    (Answered(r) /\ r.route \in GatedRoutes /\ r.auth.given) => r.calls = 1

\* What the code keeps of C12: an attempt with a stored username calls back
\* once (with the error of the missing validatePassword).
C12_KnownUserCallbackOnce ==
  \A s \in Slots :
    LET r == reqs[s] IN
    (Answered(r) /\ r.route \in GatedRoutes /\ KnownUser(r)) => r.calls = 1

====
